---------------------------- MODULE Spec2Model ----------------------------
(***************************************************************************)
(* Model of the queue / worker / child-process / cancellation subsystem of *)
(* server_queue.py.  Every thread of the server is a process of the model: *)
(*   - WORKER_COUNT worker threads running worker_loop,                    *)
(*   - the event loop, which runs upload_endpoint (an "async def" without  *)
(*     an await after the files are saved, so uploads never overlap),      *)
(*   - thread-pool threads running cancel_endpoint and result_endpoint,    *)
(*   - cleanup_older, and one child process per task.                      *)
(* A step of the model is one statement of the source (threads may be      *)
(* switched between any two statements); adjacent statements are one step  *)
(* only where no other thread can tell the difference.                     *)
(* The worker loop and next_task_id of server_simple.py and the solve      *)
(* handler of sample.py are modelled in sections of their own.             *)
(***************************************************************************)
EXTENDS Integers, Sequences, FiniteSets

\* ---------------------------------------------------------------- bounds
\* Number of task ids the uploads may allocate.
MaxTasks == 2
\* Number of thread-pool threads that may run cancel_endpoint at once.
NumCancelThreads == 1
\* Number of thread-pool threads that may run result_endpoint at once.
NumQueryThreads == 1

\* Number of task ids next_task_id of server_simple.py may hand out.
MaxSimpleTasks == 3

\* Number of threads that may be inside next_task_id of server_simple.py at once.
NumIdCallers == 3
\* Number of calls of next_task_id in the specification of next_task_id alone.
MaxIdCalls == 4

\* Number of worker threads: WORKER_COUNT is read from the environment
\* (default 3); the model runs the smallest pool that has concurrent workers.
WORKER_COUNT == 2

\* sample.py: longest qnum form field and longest filename of a request,
\* and the most files one request uploads.
MaxQnumLen == 2
MaxNameLen == 4
MaxFiles == 2

TaskIds == 1..MaxTasks
Workers == 1..WORKER_COUNT
CancelThreads == 1..NumCancelThreads
QueryThreads == 1..NumQueryThreads
\* server_simple.py: the ids t0001, t0002, ... (the counter value names the id).
SimpleTaskIds == 1..MaxSimpleTasks
IdCallers == 1..NumIdCallers

\* ---------------------------------------------------------------- values
\* Python's None where a result dict is expected (RESULTS.get of a missing
\* key, read_result_file of a missing file).
None == [py |-> "None"]
\* Python's None where a status string is expected (TASKS.get of a missing key).
NoStatus == "None"

\* The answers solve may produce ("result" of the child's done record).
Payloads == { [correct_option |-> "A", explanation |-> "text"] }

\* {"status": "done", "result": payload}, written by child_process_work.
DoneRecord(payload) == [status |-> "done", result |-> payload]
\* {"status": "failed", "error": str(e), "trace": ...}, written by the child.
ChildFailedRecord == [status |-> "failed", error |-> "external_error", trace |-> "trace"]
\* {"status": "failed", "error": "timeout"}, written by the worker.
TimeoutRecord == [status |-> "failed", error |-> "timeout"]
\* {"status": "failed", "error": "cancelled_by_user"}, written by cancel.
CancelRecord == [status |-> "failed", error |-> "cancelled_by_user"]

ErrTimeout == [error |-> "timeout"]
ErrNoResultFile == [error |-> "no_result_file"]
ErrCancelledByUser == [error |-> "cancelled_by_user"]
ErrException == [error |-> "exception"]

\* dict.get(key): the value, or None when the key is missing.
DictGet(d, key) == IF key \in DOMAIN d THEN d[key] ELSE None

\* Contents of <task dir>/result.json: no file, a JSON text, or a text that
\* is not JSON (a write cut short by the kill of the writing process).
NoFile == [file |-> "absent"]
Garbage == [file |-> "text", json |-> FALSE]
\* json.dumps(payload): the text of the record.
JsonDumps(payload) == [file |-> "text", json |-> TRUE, value |-> payload]
\* json.loads(text) raises unless the text is JSON;
JsonValid(text) == text.json
\* otherwise it returns the record the text stands for.
JsonLoads(text) == text.value

VARIABLES
    TASKS,        \* task_id -> status, NoStatus when the key is absent
    RESULTS,      \* task_id -> result dict, None when the key is absent
    CANCELLED,    \* set of task ids
    PROCESS_MAP,  \* the task ids that have a Process object registered
    TASK_QUEUE,   \* queue.Queue of descriptors (their task ids)
    child,        \* task_id -> state of its child process
    file,         \* task_id -> contents of result.json
    dir,          \* task_id -> whether UPLOAD_ROOT/task_id exists
    wpc,          \* worker -> position in worker_loop
    wtask,        \* worker -> task_id of the descriptor it holds, 0 when none
    wout,         \* worker -> the outcome it is about to record
    upc,          \* position of the event loop in upload_endpoint
    utask,        \* task_id of the upload in progress, 0 when none
    nextId,       \* number of ids allocated so far (uuid4 never repeats)
    cpc,          \* cancel thread -> position in cancel_endpoint
    ctask,        \* cancel thread -> its task_id argument, 0 when idle
    cresp,        \* cancel thread -> the response of its last call
    qpc,          \* query thread -> position in result_endpoint
    qtask,        \* query thread -> its task_id argument, 0 when idle
    qstatus,      \* query thread -> status it read
    enqueued,     \* history: task ids in the order TASK_QUEUE.put completed
    dequeued,     \* history: task ids in the order TASK_QUEUE.get returned them
    handled,      \* history: task_id -> branch of worker_loop that handled it
    \* ---- server_simple.py (its globals carry the prefix S_)
    S_TASKS,          \* task_id -> status, NoStatus when the key is absent
    S_RESULTS,        \* task_id -> result, None when the key is absent
    S_CANCELLED,      \* set of task ids
    PROCESSING,       \* set of task ids
    S_TASK_QUEUE,     \* queue.Queue of descriptors (their task ids)
    unfinished_tasks, \* TASK_QUEUE.unfinished_tasks, the count task_done keeps
    S_counter,        \* _counter of next_task_id
    OPENAI_API_KEY,   \* whether the environment sets OPENAI_API_KEY
    swpc,             \* worker -> position in worker_loop
    swtask,           \* worker -> task_id of the descriptor it holds, 0 when none
    supc,             \* position of the event loop in upload_endpoint
    sutask,           \* task_id of the upload in progress, 0 when none
    scpc,             \* position of the cancel thread in cancel_endpoint
    sctask,           \* task_id argument of the cancel thread, 0 when idle
    counter_lock,     \* _counter_lock: the caller that holds it, 0 when free
    ipc,              \* caller -> position in next_task_id
    itmp,             \* caller -> the value _counter + 1 it has computed
    issued,           \* history: the ids next_task_id has returned, in order
    \* ---- sample.py
    client,           \* whether the module-level OpenAI client exists
    solve_pc,         \* position of the request in solve
    qnum,             \* the qnum form field of the request in progress
    files,            \* the uploaded files of the request (their filenames)
    q_number,         \* local q_number of solve
    response          \* the JSON body and status code solve answered last

\* The variables of server_queue.py and those of server_simple.py.
queueVars == << TASKS, RESULTS, CANCELLED, PROCESS_MAP, TASK_QUEUE, child, file,
                dir, wpc, wtask, wout, upc, utask, nextId, cpc, ctask, cresp,
                qpc, qtask, qstatus, enqueued, dequeued, handled >>
simpleStore == << S_TASKS, S_RESULTS, S_CANCELLED, PROCESSING, S_TASK_QUEUE,
                  unfinished_tasks >>
simpleWorker == << swpc, swtask >>
idVars == << counter_lock, ipc, itmp, issued >>
simpleUpload == << supc, sutask, S_counter, idVars >>
simpleCancel == << scpc, sctask >>
simpleVars == << simpleStore, simpleWorker, simpleUpload, simpleCancel,
                 OPENAI_API_KEY >>

sampleVars == << client, solve_pc, qnum, files, q_number, response >>

vars == << queueVars, simpleVars, sampleVars >>

storeVars == << TASKS, RESULTS, CANCELLED, PROCESS_MAP, TASK_QUEUE >>
procVars == << child, file, dir >>
workerVars == << wpc, wtask, wout >>
uploadVars == << upc, utask, nextId >>
cancelVars == << cpc, ctask, cresp >>
queryVars == << qpc, qtask, qstatus >>
histVars == << enqueued, dequeued, handled >>

NoOutcome == [branch |-> "none", status |-> "none", result |-> None]

\* server_queue.py after import and startup.
InitQueue ==
    /\ TASKS = [t \in TaskIds |-> NoStatus]
    /\ RESULTS = [t \in TaskIds |-> None]
    /\ CANCELLED = {}
    /\ PROCESS_MAP = {}
    /\ TASK_QUEUE = << >>
    /\ child = [t \in TaskIds |-> "none"]
    /\ file = [t \in TaskIds |-> NoFile]
    /\ dir = [t \in TaskIds |-> FALSE]
    /\ wpc = [w \in Workers |-> "get"]
    /\ wtask = [w \in Workers |-> 0]
    /\ wout = [w \in Workers |-> NoOutcome]
    /\ upc = "idle"
    /\ utask = 0
    /\ nextId = 0
    /\ cpc = [c \in CancelThreads |-> "idle"]
    /\ ctask = [c \in CancelThreads |-> 0]
    /\ cresp = [c \in CancelThreads |-> "none"]
    /\ qpc = [q \in QueryThreads |-> "idle"]
    /\ qtask = [q \in QueryThreads |-> 0]
    /\ qstatus = [q \in QueryThreads |-> NoStatus]
    /\ enqueued = << >>
    /\ dequeued = << >>
    /\ handled = [t \in TaskIds |-> "none"]

\* server_simple.py after import and startup.
InitSimpleStore ==
    /\ S_TASKS = [t \in SimpleTaskIds |-> NoStatus]
    /\ S_RESULTS = [t \in SimpleTaskIds |-> None]
    /\ S_CANCELLED = {}
    /\ PROCESSING = {}
    /\ S_TASK_QUEUE = << >>
    /\ unfinished_tasks = 0
    /\ S_counter = 0
    /\ swpc = [w \in Workers |-> "get"]
    /\ swtask = [w \in Workers |-> 0]
    /\ supc = "idle"
    /\ sutask = 0
    /\ scpc = "idle"
    /\ sctask = 0
    /\ counter_lock = 0
    /\ ipc = [i \in IdCallers |-> "idle"]
    /\ itmp = [i \in IdCallers |-> 0]
    /\ issued = << >>

\* The two servers are separate programs: in the specifications of one the
\* variables of the other keep their initial values.
\* sample.py after import: no request in progress, none answered yet.
InitSampleIdle ==
    /\ solve_pc = "idle"
    /\ qnum = None
    /\ files = << >>
    /\ q_number = None
    /\ response = None

Init ==
    /\ InitQueue
    /\ InitSimpleStore
    /\ OPENAI_API_KEY = FALSE
    /\ InitSampleIdle
    /\ client = FALSE

\* server_simple.py started with or without OPENAI_API_KEY in the environment.
InitSimple ==
    /\ InitQueue
    /\ InitSimpleStore
    /\ OPENAI_API_KEY \in BOOLEAN
    /\ InitSampleIdle
    /\ client = FALSE

\* sample.py imported with or without OPENAI_API_KEY in the environment:
\* client = openai.OpenAI(...) if API_KEY, else None.
InitSample ==
    /\ InitQueue
    /\ InitSimpleStore
    /\ OPENAI_API_KEY = FALSE
    /\ InitSampleIdle
    /\ client \in BOOLEAN

\* ------------------------------------------------------ result.json helpers
\* write_result_file: p.write_text(json.dumps(payload)); any exception (the
\* task directory is gone) is swallowed and nothing is written.
write_result_file(t, payload) ==
    IF dir[t] THEN [file EXCEPT ![t] = JsonDumps(payload)] ELSE file

\* read_result_file: None when the file is missing or is not JSON.
read_result_file(t) ==
    IF file[t] = NoFile THEN None
    ELSE IF ~JsonValid(file[t]) THEN None
    ELSE JsonLoads(file[t])

\* Process.is_alive(): the process was started and has not ended.
is_alive(t) == child[t] \in {"alive", "written"}

\* p.terminate() followed by p.join(): a live child ends (`by` tells who
\* killed it before it wrote its record), and a write of result.json it was
\* in the middle of is left cut short; on a child that has already ended
\* both calls do nothing.
Terminate(t, by) ==
    IF is_alive(t)
    THEN /\ child' = [child EXCEPT ![t] =
                        IF child[t] = "alive" THEN by ELSE "killed after write"]
         /\ \/ file' = file
            \/ /\ child[t] = "alive"
               /\ dir[t]
               /\ file' = [file EXCEPT ![t] = Garbage]
    ELSE /\ child' = child
         /\ file' = file


\* ------------------------------------------------------------- worker_loop
\* Mutant of QueueGet: returns the oldest descriptor without removing it.
QueueGet_Peek(w) ==
    /\ TASK_QUEUE # << >>
    /\ wtask' = [wtask EXCEPT ![w] = Head(TASK_QUEUE)]
    /\ TASK_QUEUE' = TASK_QUEUE
    /\ dequeued' = Append(dequeued, Head(TASK_QUEUE))

\* Mutant of QueueGet: removes and returns the newest descriptor (a stack).
QueueGet_Lifo(w) ==
    /\ TASK_QUEUE # << >>
    /\ wtask' = [wtask EXCEPT ![w] = TASK_QUEUE[Len(TASK_QUEUE)]]
    /\ TASK_QUEUE' = SubSeq(TASK_QUEUE, 1, Len(TASK_QUEUE) - 1)
    /\ dequeued' = Append(dequeued, TASK_QUEUE[Len(TASK_QUEUE)])

\* task = TASK_QUEUE.get(): blocks while the queue is empty, then removes
\* and returns the oldest descriptor.
QueueGet(w) ==
    /\ TASK_QUEUE # << >>
    /\ wtask' = [wtask EXCEPT ![w] = Head(TASK_QUEUE)]
    /\ TASK_QUEUE' = Tail(TASK_QUEUE)
    /\ dequeued' = Append(dequeued, Head(TASK_QUEUE))

WorkerGet(w) ==
    /\ wpc[w] = "get"
    /\ QueueGet(w)
    /\ wpc' = [wpc EXCEPT ![w] = "check"]
    /\ UNCHANGED << TASKS, RESULTS, CANCELLED, PROCESS_MAP, procVars, wout,
                    uploadVars, cancelVars, queryVars, enqueued, handled >>
    /\ UNCHANGED << simpleVars, sampleVars >>

\* Mutant of WorkerCheckCancelled: CANCELLED is not consulted.
WorkerCheckCancelled_NoTest(w) ==
    /\ wpc[w] = "check"
    /\ wpc' = [wpc EXCEPT ![w] = "processing"]
    /\ UNCHANGED << storeVars, procVars, wtask, wout,
                    uploadVars, cancelVars, queryVars, histVars >>
    /\ UNCHANGED << simpleVars, sampleVars >>

\* if task_id in CANCELLED: TASKS[task_id] = "cancelled";
\* TASK_QUEUE.task_done(); continue -- otherwise on to the try block.
WorkerCheckCancelled(w) ==
    /\ wpc[w] = "check"
    /\ IF wtask[w] \in CANCELLED
       THEN /\ TASKS' = [TASKS EXCEPT ![wtask[w]] = "cancelled"]
            /\ handled' = [handled EXCEPT ![wtask[w]] = "skipped"]
            /\ wpc' = [wpc EXCEPT ![w] = "get"]
            /\ wtask' = [wtask EXCEPT ![w] = 0]
       ELSE /\ wpc' = [wpc EXCEPT ![w] = "processing"]
            /\ UNCHANGED << TASKS, handled, wtask >>
    /\ UNCHANGED << RESULTS, CANCELLED, PROCESS_MAP, TASK_QUEUE, procVars, wout,
                    uploadVars, cancelVars, queryVars, enqueued, dequeued >>
    /\ UNCHANGED << simpleVars, sampleVars >>

\* TASKS[task_id] = "processing"
WorkerSetProcessing(w) ==
    /\ wpc[w] = "processing"
    /\ TASKS' = [TASKS EXCEPT ![wtask[w]] = "processing"]
    /\ wpc' = [wpc EXCEPT ![w] = "start"]
    /\ UNCHANGED << RESULTS, CANCELLED, PROCESS_MAP, TASK_QUEUE, procVars,
                    wtask, wout, uploadVars, cancelVars, queryVars, histVars >>
    /\ UNCHANGED << simpleVars, sampleVars >>

\* Mutant of WorkerStart: an exception raised by the start is not caught and
\* ends the worker thread.
WorkerStart_Escapes(w) ==
    /\ wpc[w] = "start"
    /\ PROCESS_MAP' = PROCESS_MAP \cup {wtask[w]}
    /\ \/ /\ child' = [child EXCEPT ![wtask[w]] = "alive"]
          /\ wpc' = [wpc EXCEPT ![w] = "join"]
       \/ /\ child' = [child EXCEPT ![wtask[w]] = "created"]
          /\ wpc' = [wpc EXCEPT ![w] = "crashed"]
    /\ UNCHANGED << TASKS, RESULTS, CANCELLED, TASK_QUEUE, file, dir, wtask,
                    wout, uploadVars, cancelVars, queryVars, histVars >>
    /\ UNCHANGED << simpleVars, sampleVars >>

\* p = Process(...); PROCESS_MAP[task_id] = p; p.start(): the child runs
\* child_process_work; or the start raises (no process can be made) and
\* control goes to the except clause with p registered but never alive.
WorkerStart(w) ==
    /\ wpc[w] = "start"
    /\ PROCESS_MAP' = PROCESS_MAP \cup {wtask[w]}
    /\ \/ /\ child' = [child EXCEPT ![wtask[w]] = "alive"]
          /\ wpc' = [wpc EXCEPT ![w] = "join"]
          /\ wout' = wout
       \/ /\ child' = [child EXCEPT ![wtask[w]] = "created"]
          /\ wpc' = [wpc EXCEPT ![w] = "status"]
          /\ wout' = [wout EXCEPT ![w] =
                [branch |-> "exception", status |-> "failed", result |-> ErrException]]
    /\ UNCHANGED << TASKS, RESULTS, CANCELLED, TASK_QUEUE, file, dir, wtask,
                    uploadVars, cancelVars, queryVars, histVars >>
    /\ UNCHANGED << simpleVars, sampleVars >>

\* Mutant of WorkerTimeout: the timeout branch records the failure and
\* leaves the child running.
WorkerTimeout_NoTerminate(w) ==
    /\ wpc[w] = "join"
    /\ is_alive(wtask[w])
    /\ wout' = [wout EXCEPT ![w] =
          [branch |-> "timeout", status |-> "failed", result |-> ErrTimeout]]
    /\ wpc' = [wpc EXCEPT ![w] = "status"]
    /\ UNCHANGED << storeVars, procVars, wtask,
                    uploadVars, cancelVars, queryVars, histVars >>
    /\ UNCHANGED << simpleVars, sampleVars >>

\* Mutant of WorkerTimeout: p.join() without a deadline; the worker waits
\* for as long as the child is alive.
WorkerTimeout_NoDeadline(w) ==
    /\ wpc[w] = "join"
    /\ is_alive(wtask[w])
    /\ UNCHANGED vars

\* p.join(CHILD_TIMEOUT) returns because the deadline passed, and
\* p.is_alive() is true: the timeout branch is taken.
WorkerTimeout(w) ==
    /\ wpc[w] = "join"
    /\ is_alive(wtask[w])
    /\ wout' = [wout EXCEPT ![w] =
          [branch |-> "timeout", status |-> "failed", result |-> ErrTimeout]]
    /\ wpc' = [wpc EXCEPT ![w] = "terminate"]
    /\ UNCHANGED << storeVars, procVars, wtask,
                    uploadVars, cancelVars, queryVars, histVars >>
    /\ UNCHANGED << simpleVars, sampleVars >>

\* Mutant of WorkerTerminate: the timeout branch forgets to end the child.
WorkerTerminate_NoKill(w) ==
    /\ wpc[w] = "terminate"
    /\ wpc' = [wpc EXCEPT ![w] = "status"]
    /\ UNCHANGED << storeVars, procVars, wtask, wout,
                    uploadVars, cancelVars, queryVars, histVars >>
    /\ UNCHANGED << simpleVars, sampleVars >>

\* p.terminate(); p.join()
WorkerTerminate(w) ==
    /\ wpc[w] = "terminate"
    /\ Terminate(wtask[w], "killed by worker")
    /\ wpc' = [wpc EXCEPT ![w] = "status"]
    /\ UNCHANGED << storeVars, dir, wtask, wout,
                    uploadVars, cancelVars, queryVars, histVars >>
    /\ UNCHANGED << simpleVars, sampleVars >>

\* Mutant of OutcomeOf: the done branch stores the whole record, not its
\* "result" entry.
OutcomeOf_WholeRecord(res) ==
    IF res = None
    THEN [branch |-> "no_result", status |-> "failed", result |-> ErrNoResultFile]
    ELSE IF "status" \in DOMAIN res /\ res.status = "done"
    THEN [branch |-> "done", status |-> "done", result |-> res]
    ELSE [branch |-> "failed_record", status |-> "failed", result |-> res]

\* Mutant of OutcomeOf: a record whose status is not "done" is dropped and
\* nothing is stored as the result.
OutcomeOf_DropsRecord(res) ==
    IF res = None
    THEN [branch |-> "no_result", status |-> "failed", result |-> ErrNoResultFile]
    ELSE IF "status" \in DOMAIN res /\ res.status = "done"
    THEN [branch |-> "done", status |-> "done", result |-> DictGet(res, "result")]
    ELSE [branch |-> "failed_record", status |-> "failed", result |-> None]

\* The outcome the else branch records for what read_result_file returned.
OutcomeOf(res) ==
    IF res = None
    THEN [branch |-> "no_result", status |-> "failed", result |-> ErrNoResultFile]
    ELSE IF "status" \in DOMAIN res /\ res.status = "done"
    THEN [branch |-> "done", status |-> "done", result |-> DictGet(res, "result")]
    ELSE [branch |-> "failed_record", status |-> "failed", result |-> res]

\* p.join(CHILD_TIMEOUT) returns and p.is_alive() is false (the child has
\* ended): res = read_result_file(task_id) and the choice of the branch.
WorkerRead(w) ==
    /\ wpc[w] = "join"
    /\ ~is_alive(wtask[w])
    /\ wout' = [wout EXCEPT ![w] = OutcomeOf(read_result_file(wtask[w]))]
    /\ wpc' = [wpc EXCEPT ![w] = "status"]
    /\ UNCHANGED << storeVars, procVars, wtask,
                    uploadVars, cancelVars, queryVars, histVars >>
    /\ UNCHANGED << simpleVars, sampleVars >>

\* TASKS[task_id] = "done" | "failed"
WorkerSetStatus(w) ==
    /\ wpc[w] = "status"
    /\ TASKS' = [TASKS EXCEPT ![wtask[w]] = wout[w].status]
    /\ wpc' = [wpc EXCEPT ![w] = "result"]
    /\ UNCHANGED << RESULTS, CANCELLED, PROCESS_MAP, TASK_QUEUE, procVars,
                    wtask, wout, uploadVars, cancelVars, queryVars, histVars >>
    /\ UNCHANGED << simpleVars, sampleVars >>

\* RESULTS[task_id] = ...; in the timeout branch also
\* write_result_file(task_id, {"status": "failed", "error": "timeout"})
WorkerSetResult(w) ==
    /\ wpc[w] = "result"
    /\ RESULTS' = [RESULTS EXCEPT ![wtask[w]] = wout[w].result]
    /\ file' = IF wout[w].branch = "timeout"
               THEN write_result_file(wtask[w], TimeoutRecord)
               ELSE file
    /\ wpc' = [wpc EXCEPT ![w] = "finally"]
    /\ UNCHANGED << TASKS, CANCELLED, PROCESS_MAP, TASK_QUEUE, child, dir,
                    wtask, wout, uploadVars, cancelVars, queryVars, histVars >>
    /\ UNCHANGED << simpleVars, sampleVars >>

\* Mutant of WorkerFinally: the entry is left in PROCESS_MAP.
WorkerFinally_NoPop(w) ==
    /\ wpc[w] = "finally"
    /\ handled' = [handled EXCEPT ![wtask[w]] = wout[w].branch]
    /\ wpc' = [wpc EXCEPT ![w] = "get"]
    /\ wtask' = [wtask EXCEPT ![w] = 0]
    /\ wout' = [wout EXCEPT ![w] = NoOutcome]
    /\ UNCHANGED << storeVars, procVars,
                    uploadVars, cancelVars, queryVars, enqueued, dequeued >>
    /\ UNCHANGED << simpleVars, sampleVars >>

\* finally: PROCESS_MAP.pop(task_id, None); TASK_QUEUE.task_done()
WorkerFinally(w) ==
    /\ wpc[w] = "finally"
    /\ PROCESS_MAP' = PROCESS_MAP \ {wtask[w]}
    /\ handled' = [handled EXCEPT ![wtask[w]] = wout[w].branch]
    /\ wpc' = [wpc EXCEPT ![w] = "get"]
    /\ wtask' = [wtask EXCEPT ![w] = 0]
    /\ wout' = [wout EXCEPT ![w] = NoOutcome]
    /\ UNCHANGED << TASKS, RESULTS, CANCELLED, TASK_QUEUE, procVars,
                    uploadVars, cancelVars, queryVars, enqueued, dequeued >>
    /\ UNCHANGED << simpleVars, sampleVars >>

worker_loop(w) ==
    \/ WorkerGet(w)
    \/ WorkerCheckCancelled(w)
    \/ WorkerSetProcessing(w)
    \/ WorkerStart(w)
    \/ WorkerTimeout(w)
    \/ WorkerTerminate(w)
    \/ WorkerRead(w)
    \/ WorkerSetStatus(w)
    \/ WorkerSetResult(w)
    \/ WorkerFinally(w)

\* ------------------------------------------------------ child_process_work
\* The child writes its record: a done record with the answer, or the
\* failed record of its except clause.
ChildWrite(t) ==
    /\ child[t] = "alive"
    /\ \E rec \in {DoneRecord(p) : p \in Payloads} \cup {ChildFailedRecord} :
          file' = write_result_file(t, rec)
    /\ child' = [child EXCEPT ![t] = "written"]
    /\ UNCHANGED << storeVars, dir, workerVars, uploadVars, cancelVars,
                    queryVars, histVars >>
    /\ UNCHANGED << simpleVars, sampleVars >>

\* The child process ends: after its write, or without one (it crashed).
ChildExit(t) ==
    /\ child[t] \in {"alive", "written"}
    /\ child' = [child EXCEPT ![t] = "exited"]
    /\ UNCHANGED << storeVars, file, dir, workerVars, uploadVars, cancelVars,
                    queryVars, histVars >>
    /\ UNCHANGED << simpleVars, sampleVars >>

child_process_work(t) == ChildWrite(t) \/ ChildExit(t)


\* --------------------------------------------------------- upload_endpoint
\* task_id = str(uuid.uuid4()); paths = save_upload_files(task_id, files).
\* Saving may fail (HTTP 400) before or after the directory was made.
UploadSave ==
    /\ upc = "idle"
    /\ nextId < MaxTasks
    /\ nextId' = nextId + 1
    /\ \/ /\ dir' = [dir EXCEPT ![nextId + 1] = TRUE]
          /\ utask' = nextId + 1
          /\ upc' = "queued"
       \/ /\ dir' \in {dir, [dir EXCEPT ![nextId + 1] = TRUE]}
          /\ utask' = 0
          /\ upc' = "idle"
    /\ UNCHANGED << storeVars, child, file, workerVars, cancelVars, queryVars,
                    histVars >>
    /\ UNCHANGED << simpleVars, sampleVars >>

\* Mutant of UploadSetQueued: the status is not recorded before the put.
UploadSetQueued_NoWrite ==
    /\ upc = "queued"
    /\ upc' = "put"
    /\ UNCHANGED << storeVars, procVars, workerVars, utask, nextId,
                    cancelVars, queryVars, histVars >>
    /\ UNCHANGED << simpleVars, sampleVars >>

\* TASKS[task_id] = "queued"
UploadSetQueued ==
    /\ upc = "queued"
    /\ TASKS' = [TASKS EXCEPT ![utask] = "queued"]
    /\ upc' = "put"
    /\ UNCHANGED << RESULTS, CANCELLED, PROCESS_MAP, TASK_QUEUE, procVars,
                    workerVars, utask, nextId, cancelVars, queryVars, histVars >>
    /\ UNCHANGED << simpleVars, sampleVars >>

\* TASK_QUEUE.put(descriptor): appended at the tail; the queue is unbounded.
QueuePut(t) ==
    /\ TASK_QUEUE' = Append(TASK_QUEUE, t)
    /\ enqueued' = Append(enqueued, t)

\* TASK_QUEUE.put({...}); return {"task_id": task_id, "status": "queued"}
UploadPut ==
    /\ upc = "put"
    /\ QueuePut(utask)
    /\ upc' = "idle"
    /\ utask' = 0
    /\ UNCHANGED << TASKS, RESULTS, CANCELLED, PROCESS_MAP, procVars, workerVars,
                    nextId, cancelVars, queryVars, dequeued, handled >>
    /\ UNCHANGED << simpleVars, sampleVars >>

upload_endpoint == UploadSave \/ UploadSetQueued \/ UploadPut

\* Mutant of CancelCall: the id is added to CANCELLED before TASKS is
\* consulted.
CancelCall_AddsFirst(c, t) ==
    /\ cpc[c] = "idle"
    /\ CANCELLED' = CANCELLED \cup {t}
    /\ IF TASKS[t] = NoStatus
       THEN /\ cresp' = [cresp EXCEPT ![c] = "unknown task_id"]
            /\ UNCHANGED << cpc, ctask, TASKS >>
       ELSE /\ TASKS' = [TASKS EXCEPT ![t] = "cancelled"]
            /\ cpc' = [cpc EXCEPT ![c] = "lookup"]
            /\ ctask' = [ctask EXCEPT ![c] = t]
            /\ cresp' = [cresp EXCEPT ![c] = "none"]
    /\ UNCHANGED << RESULTS, PROCESS_MAP, TASK_QUEUE, procVars,
                    workerVars, uploadVars, queryVars, histVars >>
    /\ UNCHANGED << simpleVars, sampleVars >>

\* --------------------------------------------------------- cancel_endpoint
\* if task_id not in TASKS: return 404 "unknown task_id"; otherwise
\* CANCELLED.add(task_id); TASKS[task_id] = "cancelled".
\* The three statements are one step: keys are never removed from TASKS,
\* and the only reader of CANCELLED, the worker's test, answers it by
\* writing "cancelled" itself, so no thread can tell the add from the write.
CancelCall(c, t) ==
    /\ cpc[c] = "idle"
    /\ IF TASKS[t] = NoStatus
       THEN /\ cresp' = [cresp EXCEPT ![c] = "unknown task_id"]
            /\ UNCHANGED << cpc, ctask, CANCELLED, TASKS >>
       ELSE /\ CANCELLED' = CANCELLED \cup {t}
            /\ TASKS' = [TASKS EXCEPT ![t] = "cancelled"]
            /\ cpc' = [cpc EXCEPT ![c] = "lookup"]
            /\ ctask' = [ctask EXCEPT ![c] = t]
            /\ cresp' = [cresp EXCEPT ![c] = "none"]
    /\ UNCHANGED << RESULTS, PROCESS_MAP, TASK_QUEUE, procVars,
                    workerVars, uploadVars, queryVars, histVars >>
    /\ UNCHANGED << simpleVars, sampleVars >>

\* p = PROCESS_MAP.get(task_id); if p is not None and p.is_alive(): ...
\* otherwise return {"task_id": task_id, "status": "cancelled"}
CancelLookup(c) ==
    /\ cpc[c] = "lookup"
    /\ IF ctask[c] \in PROCESS_MAP /\ is_alive(ctask[c])
       THEN /\ cpc' = [cpc EXCEPT ![c] = "terminate"]
            /\ UNCHANGED << ctask, cresp >>
       ELSE /\ cpc' = [cpc EXCEPT ![c] = "idle"]
            /\ ctask' = [ctask EXCEPT ![c] = 0]
            /\ cresp' = [cresp EXCEPT ![c] = "cancelled"]
    /\ UNCHANGED << storeVars, procVars, workerVars, uploadVars, queryVars,
                    histVars >>
    /\ UNCHANGED << simpleVars, sampleVars >>

\* p.terminate(); p.join(timeout=5)
CancelTerminate(c) ==
    /\ cpc[c] = "terminate"
    /\ Terminate(ctask[c], "killed by cancel")
    /\ cpc' = [cpc EXCEPT ![c] = "file"]
    /\ UNCHANGED << storeVars, dir, workerVars, uploadVars, ctask, cresp,
                    queryVars, histVars >>
    /\ UNCHANGED << simpleVars, sampleVars >>

\* write_result_file(task_id, {"status": "failed", "error": "cancelled_by_user"})
CancelWriteFile(c) ==
    /\ cpc[c] = "file"
    /\ file' = write_result_file(ctask[c], CancelRecord)
    /\ cpc' = [cpc EXCEPT ![c] = "result"]
    /\ UNCHANGED << storeVars, child, dir, workerVars, uploadVars, ctask, cresp,
                    queryVars, histVars >>
    /\ UNCHANGED << simpleVars, sampleVars >>

\* RESULTS[task_id] = {"error": "cancelled_by_user"}; return "cancelled"
CancelSetResult(c) ==
    /\ cpc[c] = "result"
    /\ RESULTS' = [RESULTS EXCEPT ![ctask[c]] = ErrCancelledByUser]
    /\ cpc' = [cpc EXCEPT ![c] = "idle"]
    /\ ctask' = [ctask EXCEPT ![c] = 0]
    /\ cresp' = [cresp EXCEPT ![c] = "cancelled"]
    /\ UNCHANGED << TASKS, CANCELLED, PROCESS_MAP, TASK_QUEUE, procVars,
                    workerVars, uploadVars, queryVars, histVars >>
    /\ UNCHANGED << simpleVars, sampleVars >>

cancel_endpoint(c) ==
    \/ \E t \in TaskIds : CancelCall(c, t)
    \/ CancelLookup(c)
    \/ CancelTerminate(c)
    \/ CancelWriteFile(c)
    \/ CancelSetResult(c)

\* --------------------------------------------------------- result_endpoint
\* status = TASKS.get(task_id)
QueryReadStatus(q, t) ==
    /\ qpc[q] = "idle"
    /\ qtask' = [qtask EXCEPT ![q] = t]
    /\ qstatus' = [qstatus EXCEPT ![q] = TASKS[t]]
    /\ qpc' = [qpc EXCEPT ![q] = "res"]
    /\ UNCHANGED << storeVars, procVars, workerVars, uploadVars, cancelVars,
                    histVars >>
    /\ UNCHANGED << simpleVars, sampleVars >>

\* Mutant of QueryResponse: the 404 is decided on the result, not on the
\* status.
QueryResponse_TestsResult(q) ==
    IF RESULTS[qtask[q]] = None
    THEN [error |-> "unknown task_id"]
    ELSE [task_id |-> qtask[q], status |-> qstatus[q],
          result |-> RESULTS[qtask[q]]]

\* The response of a query that has read status and now reads res:
\* 404 "unknown task_id" when status is None, otherwise
\* {"task_id": task_id, "status": status, "result": res}.
QueryResponse(q) ==
    IF qstatus[q] = NoStatus
    THEN [error |-> "unknown task_id"]
    ELSE [task_id |-> qtask[q], status |-> qstatus[q],
          result |-> RESULTS[qtask[q]]]

\* res = RESULTS.get(task_id); return QueryResponse
QueryReadResult(q) ==
    /\ qpc[q] = "res"
    /\ qpc' = [qpc EXCEPT ![q] = "idle"]
    /\ qtask' = [qtask EXCEPT ![q] = 0]
    /\ qstatus' = [qstatus EXCEPT ![q] = NoStatus]
    /\ UNCHANGED << storeVars, procVars, workerVars, uploadVars, cancelVars,
                    histVars >>
    /\ UNCHANGED << simpleVars, sampleVars >>

result_endpoint(q) ==
    \/ \E t \in TaskIds : QueryReadStatus(q, t)
    \/ QueryReadResult(q)

\* ----------------------------------------------------------- cleanup_older
\* Mutant of cleanup_older: the entries of the task are dropped from TASKS
\* and RESULTS together with its directory.
cleanup_older_Forgets(t) ==
    /\ dir[t]
    /\ dir' = [dir EXCEPT ![t] = FALSE]
    /\ file' = [file EXCEPT ![t] = NoFile]
    /\ TASKS' = [TASKS EXCEPT ![t] = NoStatus]
    /\ RESULTS' = [RESULTS EXCEPT ![t] = None]
    /\ UNCHANGED << CANCELLED, PROCESS_MAP, TASK_QUEUE, child, workerVars,
                    uploadVars, cancelVars, queryVars, histVars >>
    /\ UNCHANGED << simpleVars, sampleVars >>

\* shutil.rmtree(d) for a task directory whose mtime is before the cutoff
\* (with days=0 the cutoff is the time of the call): the directory and the
\* result.json in it are gone.  TASKS and RESULTS are not touched.
cleanup_older(t) ==
    /\ dir[t]
    /\ dir' = [dir EXCEPT ![t] = FALSE]
    /\ file' = [file EXCEPT ![t] = NoFile]
    /\ UNCHANGED << storeVars, child, workerVars, uploadVars, cancelVars,
                    queryVars, histVars >>
    /\ UNCHANGED << simpleVars, sampleVars >>

\* ------------------------------------------------------------ the system
\* The server without result_endpoint, which only reads TASKS and RESULTS.
Next ==
    \/ \E w \in Workers : worker_loop(w)
    \/ \E t \in TaskIds : child_process_work(t)
    \/ upload_endpoint
    \/ \E c \in CancelThreads : cancel_endpoint(c)
    \/ \E t \in TaskIds : cleanup_older(t)

Spec == Init /\ [][Next]_vars

\* The server with result_endpoint and without cleanup_older, which changes
\* only the task directories: result_endpoint never reads them.
NextQuery ==
    \/ \E w \in Workers : worker_loop(w)
    \/ \E t \in TaskIds : child_process_work(t)
    \/ upload_endpoint
    \/ \E c \in CancelThreads : cancel_endpoint(c)
    \/ \E q \in QueryThreads : result_endpoint(q)

SpecQuery == Init /\ [][NextQuery]_vars

\* The server with neither result_endpoint nor cleanup_older, and with the
\* worker threads scheduled fairly: a worker that can take a step takes it
\* (p.join(CHILD_TIMEOUT) returns at the deadline at the latest).  Nothing is
\* assumed about the child: it may hang in solve forever.
NextFair ==
    \/ \E w \in Workers : worker_loop(w)
    \/ \E t \in TaskIds : child_process_work(t)
    \/ upload_endpoint
    \/ \E c \in CancelThreads : cancel_endpoint(c)

Fairness == \A w \in Workers : WF_vars(worker_loop(w))

SpecFair == Init /\ [][NextFair]_vars /\ Fairness

\* ================================================== server_simple.py
\* write_result_file is left out of the model of server_simple.py: nothing
\* in that file ever reads result.json back.

\* TASK_QUEUE.task_done() raises ValueError("task_done() called too many
\* times") when the count would drop below zero, and leaves the count as it is.
task_done_raises == unfinished_tasks - 1 < 0

task_done_count == IF task_done_raises THEN unfinished_tasks ELSE unfinished_tasks - 1

\* --------------------------------------------- worker_loop (server_simple)
\* task = TASK_QUEUE.get(); task_id = task["task_id"]; ...
SimpleGet(w) ==
    /\ swpc[w] = "get"
    /\ S_TASK_QUEUE # << >>
    /\ swtask' = [swtask EXCEPT ![w] = Head(S_TASK_QUEUE)]
    /\ S_TASK_QUEUE' = Tail(S_TASK_QUEUE)
    /\ swpc' = [swpc EXCEPT ![w] = "check"]
    /\ UNCHANGED << S_TASKS, S_RESULTS, S_CANCELLED, PROCESSING, unfinished_tasks,
                    simpleUpload, simpleCancel, OPENAI_API_KEY, queueVars, sampleVars >>

\* if task_id in CANCELLED: TASKS[task_id] = "cancelled" -- otherwise on to
\* the try block.
SimpleCheckCancelled(w) ==
    /\ swpc[w] = "check"
    /\ IF swtask[w] \in S_CANCELLED
       THEN /\ S_TASKS' = [S_TASKS EXCEPT ![swtask[w]] = "cancelled"]
            /\ swpc' = [swpc EXCEPT ![w] = "skip_done"]
       ELSE /\ S_TASKS' = S_TASKS
            /\ swpc' = [swpc EXCEPT ![w] = "processing"]
    /\ UNCHANGED << S_RESULTS, S_CANCELLED, PROCESSING, S_TASK_QUEUE,
                    unfinished_tasks, swtask, simpleUpload, simpleCancel,
                    OPENAI_API_KEY, queueVars, sampleVars >>

\* TASK_QUEUE.task_done(); continue (lines 116-117, outside the try block:
\* an exception raised here ends the worker thread).
SimpleSkipDone(w) ==
    /\ swpc[w] = "skip_done"
    /\ unfinished_tasks' = task_done_count
    /\ IF task_done_raises
       THEN /\ swpc' = [swpc EXCEPT ![w] = "dead"]
            /\ swtask' = swtask
       ELSE /\ swpc' = [swpc EXCEPT ![w] = "get"]
            /\ swtask' = [swtask EXCEPT ![w] = 0]
    /\ UNCHANGED << S_TASKS, S_RESULTS, S_CANCELLED, PROCESSING, S_TASK_QUEUE,
                    simpleUpload, simpleCancel, OPENAI_API_KEY, queueVars, sampleVars >>

\* TASKS[task_id] = "processing"; PROCESSING.add(task_id) (PROCESSING is
\* read by no other thread).
SimpleSetProcessing(w) ==
    /\ swpc[w] = "processing"
    /\ S_TASKS' = [S_TASKS EXCEPT ![swtask[w]] = "processing"]
    /\ PROCESSING' = PROCESSING \cup {swtask[w]}
    /\ swpc' = [swpc EXCEPT ![w] = "client"]
    /\ UNCHANGED << S_RESULTS, S_CANCELLED, S_TASK_QUEUE, unfinished_tasks,
                    swtask, simpleUpload, simpleCancel, OPENAI_API_KEY,
                    queueVars, sampleVars >>

\* Lines 122-136: the images are read (failures are swallowed) and
\* client = make_openai_client(): None without OPENAI_API_KEY; with the key
\* a client, or an exception from the client library, which goes to the
\* outer except clause.
SimpleMakeClient(w) ==
    /\ swpc[w] = "client"
    /\ IF ~OPENAI_API_KEY
       THEN swpc' = [swpc EXCEPT ![w] = "sim_result"]
       ELSE \/ swpc' = [swpc EXCEPT ![w] = "call"]
            \/ swpc' = [swpc EXCEPT ![w] = "exc_status"]
    /\ UNCHANGED << simpleStore, swtask, simpleUpload, simpleCancel,
                    OPENAI_API_KEY, queueVars, sampleVars >>

\* The results server_simple.py stores.
SimulatedResult ==
    [status |-> "ok", correct_option |-> "A", explanation |-> "simulated"]
ParsedResult == [status |-> "ok", correct_option |-> "A", explanation |-> "text"]
ConfusedResult == [status |-> "confused", correct_option |-> "A", explanation |-> "text"]

\* Simulated path: RESULTS[task_id] = res
SimpleSimResult(w) ==
    /\ swpc[w] = "sim_result"
    /\ S_RESULTS' = [S_RESULTS EXCEPT ![swtask[w]] = SimulatedResult]
    /\ swpc' = [swpc EXCEPT ![w] = "sim_status"]
    /\ UNCHANGED << S_TASKS, S_CANCELLED, PROCESSING, S_TASK_QUEUE,
                    unfinished_tasks, swtask, simpleUpload, simpleCancel,
                    OPENAI_API_KEY, queueVars, sampleVars >>

\* Simulated path: TASKS[task_id] = "done"; write_result_file(...)
SimpleSimStatus(w) ==
    /\ swpc[w] = "sim_status"
    /\ S_TASKS' = [S_TASKS EXCEPT ![swtask[w]] = "done"]
    /\ swpc' = [swpc EXCEPT ![w] = "sim_done"]
    /\ UNCHANGED << S_RESULTS, S_CANCELLED, PROCESSING, S_TASK_QUEUE,
                    unfinished_tasks, swtask, simpleUpload, simpleCancel,
                    OPENAI_API_KEY, queueVars, sampleVars >>

\* PROCESSING.discard(task_id); TASK_QUEUE.task_done(); continue -- inside
\* the try block (lines 142-144 and 173-175): a ValueError from task_done
\* goes to the outer except clause, and the continue runs the finally clause.
SimpleEarlyDone(w) ==
    /\ swpc[w] \in {"sim_done", "api_done"}
    /\ PROCESSING' = PROCESSING \ {swtask[w]}
    /\ unfinished_tasks' = task_done_count
    /\ swpc' = [swpc EXCEPT ![w] =
                  IF task_done_raises THEN "exc_status" ELSE "finally"]
    /\ UNCHANGED << S_TASKS, S_RESULTS, S_CANCELLED, S_TASK_QUEUE, swtask,
                    simpleUpload, simpleCancel, OPENAI_API_KEY, queueVars, sampleVars >>

\* client.chat.completions.create(...), executed by the worker thread
\* itself: it returns a text, raises, or never returns.
SimpleCall(w) ==
    /\ swpc[w] = "call"
    /\ \/ swpc' = [swpc EXCEPT ![w] = "result"]
       \/ swpc' = [swpc EXCEPT ![w] = "api_status"]
       \/ swpc' = [swpc EXCEPT ![w] = "hung"]
    /\ UNCHANGED << simpleStore, swtask, simpleUpload, simpleCancel,
                    OPENAI_API_KEY, queueVars, sampleVars >>

\* except Exception as e: TASKS[task_id] = "failed" (inner handler, line 170)
SimpleApiStatus(w) ==
    /\ swpc[w] = "api_status"
    /\ S_TASKS' = [S_TASKS EXCEPT ![swtask[w]] = "failed"]
    /\ swpc' = [swpc EXCEPT ![w] = "api_result"]
    /\ UNCHANGED << S_RESULTS, S_CANCELLED, PROCESSING, S_TASK_QUEUE,
                    unfinished_tasks, swtask, simpleUpload, simpleCancel,
                    OPENAI_API_KEY, queueVars, sampleVars >>

\* RESULTS[task_id] = {"error": str(e)}; write_result_file(...) (lines 171-172)
SimpleApiResult(w) ==
    /\ swpc[w] = "api_result"
    /\ S_RESULTS' = [S_RESULTS EXCEPT ![swtask[w]] = ErrException]
    /\ swpc' = [swpc EXCEPT ![w] = "api_done"]
    /\ UNCHANGED << S_TASKS, S_CANCELLED, PROCESSING, S_TASK_QUEUE,
                    unfinished_tasks, swtask, simpleUpload, simpleCancel,
                    OPENAI_API_KEY, queueVars, sampleVars >>

\* parsed = json.loads(text), or the fallback record when the text is not
\* JSON; RESULTS[task_id] = parsed
SimpleSetResult(w) ==
    /\ swpc[w] = "result"
    /\ \E parsed \in {ParsedResult, ConfusedResult} :
          S_RESULTS' = [S_RESULTS EXCEPT ![swtask[w]] = parsed]
    /\ swpc' = [swpc EXCEPT ![w] = "status"]
    /\ UNCHANGED << S_TASKS, S_CANCELLED, PROCESSING, S_TASK_QUEUE,
                    unfinished_tasks, swtask, simpleUpload, simpleCancel,
                    OPENAI_API_KEY, queueVars, sampleVars >>

\* TASKS[task_id] = "done"; write_result_file(...)
SimpleSetStatus(w) ==
    /\ swpc[w] = "status"
    /\ S_TASKS' = [S_TASKS EXCEPT ![swtask[w]] = "done"]
    /\ swpc' = [swpc EXCEPT ![w] = "finally"]
    /\ UNCHANGED << S_RESULTS, S_CANCELLED, PROCESSING, S_TASK_QUEUE,
                    unfinished_tasks, swtask, simpleUpload, simpleCancel,
                    OPENAI_API_KEY, queueVars, sampleVars >>

\* Outer except clause: TASKS[task_id] = "failed"
SimpleExcStatus(w) ==
    /\ swpc[w] = "exc_status"
    /\ S_TASKS' = [S_TASKS EXCEPT ![swtask[w]] = "failed"]
    /\ swpc' = [swpc EXCEPT ![w] = "exc_result"]
    /\ UNCHANGED << S_RESULTS, S_CANCELLED, PROCESSING, S_TASK_QUEUE,
                    unfinished_tasks, swtask, simpleUpload, simpleCancel,
                    OPENAI_API_KEY, queueVars, sampleVars >>

\* Outer except clause: RESULTS[task_id] = {"error": str(e)}; write_result_file
SimpleExcResult(w) ==
    /\ swpc[w] = "exc_result"
    /\ S_RESULTS' = [S_RESULTS EXCEPT ![swtask[w]] = ErrException]
    /\ swpc' = [swpc EXCEPT ![w] = "finally"]
    /\ UNCHANGED << S_TASKS, S_CANCELLED, PROCESSING, S_TASK_QUEUE,
                    unfinished_tasks, swtask, simpleUpload, simpleCancel,
                    OPENAI_API_KEY, queueVars, sampleVars >>

\* finally: PROCESSING.discard(task_id); TASK_QUEUE.task_done().  An
\* exception raised in the finally clause is caught by nothing: it leaves
\* worker_loop and the thread ends.
SimpleFinally(w) ==
    /\ swpc[w] = "finally"
    /\ PROCESSING' = PROCESSING \ {swtask[w]}
    /\ unfinished_tasks' = task_done_count
    /\ IF task_done_raises
       THEN /\ swpc' = [swpc EXCEPT ![w] = "dead"]
            /\ swtask' = swtask
       ELSE /\ swpc' = [swpc EXCEPT ![w] = "get"]
            /\ swtask' = [swtask EXCEPT ![w] = 0]
    /\ UNCHANGED << S_TASKS, S_RESULTS, S_CANCELLED, S_TASK_QUEUE,
                    simpleUpload, simpleCancel, OPENAI_API_KEY, queueVars, sampleVars >>

simple_worker_loop(w) ==
    \/ SimpleGet(w)
    \/ SimpleCheckCancelled(w)
    \/ SimpleSkipDone(w)
    \/ SimpleSetProcessing(w)
    \/ SimpleMakeClient(w)
    \/ SimpleSimResult(w)
    \/ SimpleSimStatus(w)
    \/ SimpleEarlyDone(w)
    \/ SimpleCall(w)
    \/ SimpleApiStatus(w)
    \/ SimpleApiResult(w)
    \/ SimpleSetResult(w)
    \/ SimpleSetStatus(w)
    \/ SimpleExcStatus(w)
    \/ SimpleExcResult(w)
    \/ SimpleFinally(w)

\* ----------------------------------------- upload_endpoint (server_simple)
\* task_id = next_task_id(): under _counter_lock, _counter += 1 and the id is
\* made of the new value.  The lock makes the call one step for every other
\* thread; NextIds below takes it apart.
next_task_id ==
    /\ supc = "idle"
    /\ S_counter < MaxSimpleTasks
    /\ S_counter' = S_counter + 1
    /\ sutask' = S_counter + 1
    /\ supc' = "save"
    /\ UNCHANGED << simpleStore, simpleWorker, simpleCancel, OPENAI_API_KEY,
                    idVars, queueVars, sampleVars >>

\* paths = save_upload_files(task_id, files); a failure answers HTTP 400.
SimpleUploadSave ==
    /\ supc = "save"
    /\ \/ /\ supc' = "queued"
          /\ sutask' = sutask
       \/ /\ supc' = "idle"
          /\ sutask' = 0
    /\ UNCHANGED << simpleStore, simpleWorker, S_counter, simpleCancel,
                    OPENAI_API_KEY, idVars, queueVars, sampleVars >>

\* TASKS[task_id] = "queued"
SimpleUploadSetQueued ==
    /\ supc = "queued"
    /\ S_TASKS' = [S_TASKS EXCEPT ![sutask] = "queued"]
    /\ supc' = "put"
    /\ UNCHANGED << S_RESULTS, S_CANCELLED, PROCESSING, S_TASK_QUEUE,
                    unfinished_tasks, simpleWorker, sutask, S_counter,
                    simpleCancel, OPENAI_API_KEY, idVars, queueVars, sampleVars >>

\* TASK_QUEUE.put(...): the descriptor is appended and unfinished_tasks
\* is incremented; then the response is returned.
SimpleUploadPut ==
    /\ supc = "put"
    /\ S_TASK_QUEUE' = Append(S_TASK_QUEUE, sutask)
    /\ unfinished_tasks' = unfinished_tasks + 1
    /\ supc' = "idle"
    /\ sutask' = 0
    /\ UNCHANGED << S_TASKS, S_RESULTS, S_CANCELLED, PROCESSING, simpleWorker,
                    S_counter, simpleCancel, OPENAI_API_KEY, idVars, queueVars, sampleVars >>

simple_upload_endpoint ==
    \/ next_task_id
    \/ SimpleUploadSave
    \/ SimpleUploadSetQueued
    \/ SimpleUploadPut

\* ----------------------------------------- cancel_endpoint (server_simple)
\* if task_id not in TASKS: return 404; CANCELLED.add(task_id)
SimpleCancelCall(t) ==
    /\ scpc = "idle"
    /\ IF S_TASKS[t] = NoStatus
       THEN UNCHANGED << S_CANCELLED, scpc, sctask >>
       ELSE /\ S_CANCELLED' = S_CANCELLED \cup {t}
            /\ scpc' = "status"
            /\ sctask' = t
    /\ UNCHANGED << S_TASKS, S_RESULTS, PROCESSING, S_TASK_QUEUE,
                    unfinished_tasks, simpleWorker, simpleUpload,
                    OPENAI_API_KEY, queueVars, sampleVars >>

\* TASKS[task_id] = "cancelled"; return {"task_id": ..., "status": "cancelled"}
SimpleCancelSetStatus ==
    /\ scpc = "status"
    /\ S_TASKS' = [S_TASKS EXCEPT ![sctask] = "cancelled"]
    /\ scpc' = "idle"
    /\ sctask' = 0
    /\ UNCHANGED << S_RESULTS, S_CANCELLED, PROCESSING, S_TASK_QUEUE,
                    unfinished_tasks, simpleWorker, simpleUpload,
                    OPENAI_API_KEY, queueVars, sampleVars >>

simple_cancel_endpoint ==
    \/ \E t \in SimpleTaskIds : SimpleCancelCall(t)
    \/ SimpleCancelSetStatus

\* server_simple.py: the worker threads, the uploads and the cancel calls.
NextSimple ==
    \/ \E w \in Workers : simple_worker_loop(w)
    \/ simple_upload_endpoint
    \/ simple_cancel_endpoint

SpecSimple == InitSimple /\ [][NextSimple]_vars

\* The same with the worker threads scheduled fairly: a worker that can take
\* a step takes it.  A worker whose API call never returns has no step.
SimpleFairness == \A w \in Workers : WF_vars(simple_worker_loop(w))

SpecSimpleFair == InitSimple /\ [][NextSimple]_vars /\ SimpleFairness

\* ------------------------------------------ next_task_id, statement by statement
\* A thread calls next_task_id and reaches the with statement.
IdCall(i) ==
    /\ ipc[i] = "idle"
    /\ Len(issued) + Cardinality({ j \in IdCallers : ipc[j] # "idle" }) < MaxIdCalls
    /\ ipc' = [ipc EXCEPT ![i] = "acquire"]
    /\ UNCHANGED << counter_lock, itmp, issued, S_counter, supc, sutask,
                    simpleStore, simpleWorker, simpleCancel, OPENAI_API_KEY,
                    queueVars, sampleVars >>

\* Mutant of IdAcquire: the body runs without _counter_lock.
IdAcquire_NoLock(i) ==
    /\ ipc[i] = "acquire"
    /\ ipc' = [ipc EXCEPT ![i] = "load"]
    /\ UNCHANGED << counter_lock, itmp, issued, S_counter, supc, sutask,
                    simpleStore, simpleWorker, simpleCancel, OPENAI_API_KEY,
                    queueVars, sampleVars >>

\* with _counter_lock: the caller enters when the lock is free.
IdAcquire(i) ==
    /\ ipc[i] = "acquire"
    /\ counter_lock = 0
    /\ counter_lock' = i
    /\ ipc' = [ipc EXCEPT ![i] = "load"]
    /\ UNCHANGED << itmp, issued, S_counter, supc, sutask,
                    simpleStore, simpleWorker, simpleCancel, OPENAI_API_KEY,
                    queueVars, sampleVars >>

\* _counter += 1, first half: the value _counter + 1 is computed.
IdLoad(i) ==
    /\ ipc[i] = "load"
    /\ itmp' = [itmp EXCEPT ![i] = S_counter + 1]
    /\ ipc' = [ipc EXCEPT ![i] = "store"]
    /\ UNCHANGED << counter_lock, issued, S_counter, supc, sutask,
                    simpleStore, simpleWorker, simpleCancel, OPENAI_API_KEY,
                    queueVars, sampleVars >>

\* _counter += 1, second half: the value is stored in _counter.
IdStore(i) ==
    /\ ipc[i] = "store"
    /\ S_counter' = itmp[i]
    /\ ipc' = [ipc EXCEPT ![i] = "return"]
    /\ UNCHANGED << counter_lock, itmp, issued, supc, sutask,
                    simpleStore, simpleWorker, simpleCancel, OPENAI_API_KEY,
                    queueVars, sampleVars >>

\* return f"t{_counter:04d}": the id is made of the value _counter has now,
\* and leaving the with block releases the lock (if the caller holds it).
IdReturn(i) ==
    /\ ipc[i] = "return"
    /\ issued' = Append(issued, S_counter)
    /\ counter_lock' = IF counter_lock = i THEN 0 ELSE counter_lock
    /\ ipc' = [ipc EXCEPT ![i] = "idle"]
    /\ itmp' = [itmp EXCEPT ![i] = 0]
    /\ UNCHANGED << S_counter, supc, sutask,
                    simpleStore, simpleWorker, simpleCancel, OPENAI_API_KEY,
                    queueVars, sampleVars >>

\* Calls of next_task_id from several threads at once.
NextIds ==
    \E i \in IdCallers :
        IdCall(i) \/ IdAcquire(i) \/ IdLoad(i) \/ IdStore(i) \/ IdReturn(i)

SpecIds == Init /\ [][NextIds]_vars

\* ---------------------------------------------------------------- sample.py
\* Strings are sequences of one-character strings. A value that may be None
\* is a record: None, Str(s) for a str, PyInt(n) for an int.
Str(s) == [str |-> s]
PyInt(n) == [int |-> n]
\* The ValueError int() raises.
ValueError == [py |-> "ValueError"]

\* Python's truth value of None, a str or an int.
Truthy(v) == v # None /\ v # Str(<< >>) /\ v # PyInt(0)

\* The characters a qnum form field and a filename are made of.
QnumChars == {"0", "7", "-", " ", "x"}
NameChars == {"q", "_", "0", "7"}

StringsUpTo(chars, n) == UNION { [1..k -> chars] : k \in 0..n }

\* The qnum form field: missing, or a string.
QnumInputs == {None} \cup { Str(s) : s \in StringsUpTo(QnumChars, MaxQnumLen) }
\* UploadFile.filename: None, or a string.
Filenames == {None} \cup { Str(s) : s \in StringsUpTo(NameChars, MaxNameLen) }
\* files: List[UploadFile] = File(...): at least one file; the files after
\* the first all carry the name "q7".
FileLists ==
    { [i \in 1..k |-> IF i = 1 THEN f ELSE Str(<<"q", "7">>)] :
          f \in Filenames, k \in 1..MaxFiles }

Digits == {"0", "1", "2", "3", "4", "5", "6", "7", "8", "9"}
DigitValue(c) ==
    CASE c = "0" -> 0 [] c = "1" -> 1 [] c = "2" -> 2 [] c = "3" -> 3
      [] c = "4" -> 4 [] c = "5" -> 5 [] c = "6" -> 6 [] c = "7" -> 7
      [] c = "8" -> 8 [] c = "9" -> 9

\* The number a string of decimal digits denotes.
RECURSIVE DecValue(_)
DecValue(ds) ==
    IF ds = << >> THEN 0
    ELSE 10 * DecValue(SubSeq(ds, 1, Len(ds) - 1)) + DigitValue(ds[Len(ds)])

\* str.strip() as int() applies it: whitespace off both ends.
RECURSIVE Strip(_)
Strip(s) ==
    IF s = << >> THEN s
    ELSE IF s[1] = " " THEN Strip(Tail(s))
    ELSE IF s[Len(s)] = " " THEN Strip(SubSeq(s, 1, Len(s) - 1))
    ELSE s

\* int(s) for a str: optional whitespace, an optional sign, then decimal
\* digits; anything else raises ValueError.
int(s) ==
    LET t == Strip(s)
        signed == t # << >> /\ t[1] \in {"-", "+"}
        body == IF signed THEN Tail(t) ELSE t
        sign == IF signed /\ t[1] = "-" THEN -1 ELSE 1
    IN  IF body # << >> /\ \A i \in DOMAIN body : body[i] \in Digits
        THEN PyInt(sign * DecValue(body))
        ELSE ValueError

\* The end of the run of digits that starts at s[i], at most max long.
RECURSIVE RunEnd(_, _, _)
RunEnd(s, i, max) ==
    IF max > 1 /\ i + 1 <= Len(s) /\ s[i + 1] \in Digits
    THEN RunEnd(s, i + 1, max - 1)
    ELSE i

\* re.search(r'[qQ][\-_ ]?(\d{1,3})', s) tried at position i: where group 1
\* starts, 0 when the pattern does not match at i.
QMatchAt(s, i) ==
    IF s[i] \notin {"q", "Q"} THEN 0
    ELSE LET d == IF i + 1 <= Len(s) /\ s[i + 1] \in {"-", "_", " "}
                  THEN i + 2 ELSE i + 1
         IN  IF d <= Len(s) /\ s[d] \in Digits THEN d ELSE 0

\* The first integer from position i on whose value is between 1 and 999:
\* the loop over re.findall(r'(\d+)', filename).
RECURSIVE FirstSmallNumber(_, _)
FirstSmallNumber(s, i) ==
    IF i > Len(s) THEN None
    ELSE IF s[i] \notin Digits THEN FirstSmallNumber(s, i + 1)
    ELSE LET e == RunEnd(s, i, Len(s))
             n == DecValue(SubSeq(s, i, e))
         IN  IF 1 <= n /\ n <= 999 THEN PyInt(n)
             ELSE FirstSmallNumber(s, e + 1)

extract_question_number_from_filename(filename) ==
    IF ~Truthy(filename) THEN None
    ELSE LET s == filename.str
             hits == { i \in DOMAIN s : QMatchAt(s, i) # 0 }
         IN  IF hits # {}
             THEN LET i == CHOOSE j \in hits : \A k \in hits : j <= k
                      d == QMatchAt(s, i)
                  IN  PyInt(DecValue(SubSeq(s, d, RunEnd(s, d, 3))))
             ELSE FirstSmallNumber(s, 1)

\* POST /solve arrives with its form fields.
SolveReceive ==
    /\ solve_pc = "idle"
    /\ \E q \in QnumInputs, fs \in FileLists :
          /\ qnum' = q
          /\ files' = fs
    /\ q_number' = None
    /\ response' = None
    /\ solve_pc' = "qnum"
    /\ UNCHANGED << client, queueVars, simpleVars >>

\* q_number = None; if qnum: try: q_number = int(qnum) except: q_number = None
SolveParseQnum ==
    /\ solve_pc = "qnum"
    /\ q_number' = IF Truthy(qnum) /\ int(qnum.str) # ValueError
                   THEN int(qnum.str)
                   ELSE None
    /\ solve_pc' = "files"
    /\ UNCHANGED << client, qnum, files, response, queueVars, simpleVars >>

\* if files: detected = extract_question_number_from_filename(files[0].filename)
\*           if not q_number and detected: q_number = detected
SolveDetect ==
    /\ solve_pc = "files"
    /\ q_number' =
          IF files # << >>
          THEN LET detected == extract_question_number_from_filename(files[1])
               IN  IF ~Truthy(q_number) /\ Truthy(detected)
                   THEN detected
                   ELSE q_number
          ELSE q_number
    /\ solve_pc' = "respond"
    /\ UNCHANGED << client, qnum, files, response, queueVars, simpleVars >>

\* What the chat completion call gives: whether it raises; whether
\* try_parse_json_candidate finds a non-empty dict in the text, and that
\* dict's status and correct_option; and the letter fallback_extract_letter
\* finds in the text ("None" when it finds none).
ModelReplies ==
    [ raises : BOOLEAN,
      parsed : BOOLEAN,
      status : {"ok", "unclear", "maybe"},
      correct_option : {"None", " b", "x"},
      letter : {"None", "C"} ]

\* .strip().upper() of a correct_option, and the test against A..E.
OptionOf(opt) ==
    IF opt = " b" THEN "B" ELSE "None"

\* sanitize_and_build_response(parsed, qnum, total_images), with the letter
\* fallback of solve for status "ok" without an option.
sanitize_and_build_response(reply, qn, total_images) ==
    LET status == IF reply.status \in {"ok", "unclear", "confused"}
                  THEN reply.status ELSE "confused"
        opt == OptionOf(reply.correct_option)
    IN  [ question_number |-> qn,
          total_images |-> total_images,
          status |-> status,
          correct_option |-> IF status = "ok" /\ opt = "None"
                             THEN reply.letter ELSE opt,
          explanation |-> "parsed",
          status_code |-> 200 ]

\* The body every other answer of solve has.
SolveBody(qn, total_images, status, letter, explanation, code) ==
    [ question_number |-> qn,
      total_images |-> total_images,
      status |-> status,
      correct_option |-> letter,
      explanation |-> explanation,
      status_code |-> code ]

\* total_images = len(files) and the rest of solve: the answer without a
\* client, or the call of the model and the answer built from its reply.
SolveRespond ==
    /\ solve_pc = "respond"
    /\ LET total_images == Len(files)
       IN  IF ~client
           THEN response' = SolveBody(q_number, total_images, "unclear", "None",
                                      "OPENAI_API_KEY not set in env", 500)
           ELSE \E reply \in ModelReplies :
                  response' =
                    IF reply.raises
                    THEN IF reply.letter # "None"
                         THEN SolveBody(q_number, total_images, "ok",
                                        reply.letter,
                                        "extracted from exception", 200)
                         ELSE SolveBody(q_number, total_images, "unclear",
                                        "None", "str(e)", 500)
                    ELSE IF reply.parsed
                    THEN sanitize_and_build_response(reply, q_number,
                                                     total_images)
                    ELSE IF reply.letter # "None"
                    THEN SolveBody(q_number, total_images, "ok", reply.letter,
                                   "None", 200)
                    ELSE SolveBody(q_number, total_images, "unclear", "None",
                                   "raw", 200)
    /\ solve_pc' = "answered"
    /\ UNCHANGED << client, qnum, files, q_number, queueVars, simpleVars >>

\* The request is over; its locals are gone.
SolveReturn ==
    /\ solve_pc = "answered"
    /\ solve_pc' = "idle"
    /\ qnum' = None
    /\ files' = << >>
    /\ q_number' = None
    /\ UNCHANGED << client, response, queueVars, simpleVars >>

solve ==
    SolveReceive \/ SolveParseQnum \/ SolveDetect \/ SolveRespond \/ SolveReturn

NextSample == solve

SpecSample == InitSample /\ [][NextSample]_vars

\* ------------------------------------------------------------- properties
Terminal == {"done", "failed", "cancelled"}

SeqToSet(seq) == { seq[i] : i \in DOMAIN seq }

NoDuplicates(seq) == \A i, j \in DOMAIN seq : i # j => seq[i] # seq[j]

\* Worker w holds a descriptor (it is between TASK_QUEUE.get and the end of
\* its handling of the task).
Holds(w, t) == wtask[w] = t /\ wpc[w] # "get"

\* The worker executes p.start() and the child process comes to life.
StartsChild(w) == wpc[w] = "start" /\ wpc'[w] = "join"

\* Cancel thread c makes the call cancel(t): its test of TASKS and, for a
\* known id, its writes to CANCELLED and TASKS.
CallsCancel(c, t) == cpc[c] = "idle" /\ cpc'[c] = "lookup" /\ ctask'[c] = t

\* C1: if cancel(task_id) is called while the recorded status is "queued",
\* the child process of that task is never started afterwards.  At the
\* statement p.start() a task that is in CANCELLED and whose status reads
\* "processing" is one whose cancel calls all came before the worker wrote
\* "processing", that is, while the status was still "queued" (a later call
\* would have left "cancelled"): no child may be started for it.
C1_NoStartAfterCancelWhileQueued ==
    [][ \A w \in Workers :
          StartsChild(w) =>
            ~(wtask[w] \in CANCELLED /\ TASKS[wtask[w]] = "processing") ]_vars

\* C2: once TASKS[task_id] holds a terminal status (done, failed or
\* cancelled) it never changes again.
C2_TerminalStatusNeverChanges ==
    [][ \A t \in TaskIds :
          TASKS[t] \in Terminal => TASKS'[t] = TASKS[t] ]_vars

\* C3: when the cancel endpoint terminates a live child before it has
\* written a result, the status of the task once the owning worker has
\* finished handling it is "cancelled".
C3_KilledByCancelEndsCancelled ==
    \A t \in TaskIds :
        (child[t] = "killed by cancel" /\ handled[t] # "none")
            => TASKS[t] = "cancelled"

\* C4: a cancel call for a task whose worker has already recorded "done"
\* with its result leaves TASKS[task_id] = "done" and RESULTS[task_id] as
\* they are (first terminal write wins).
C4_LateCancelIsNoOp ==
    [][ \A c \in CancelThreads, t \in TaskIds :
          (CallsCancel(c, t) /\ TASKS[t] = "done" /\ RESULTS[t] \in Payloads)
            => (TASKS'[t] = "done" /\ RESULTS'[t] = RESULTS[t]) ]_vars

\* C5: for a task that is never cancelled, when the child is still alive
\* after join(CHILD_TIMEOUT) the worker terminates it and the task ends
\* "failed" with result {"error": "timeout"}; wherever that status is
\* recorded the child is no longer alive.
C5_TimeoutEndsFailedChildDead ==
    \A t \in TaskIds :
        /\ \A w \in Workers :
             (Holds(w, t) /\ wout[w].branch = "timeout"
                  /\ wpc[w] \in {"result", "finally"})
               => /\ ~is_alive(t)
                  /\ t \notin CANCELLED => TASKS[t] = "failed"
                  /\ (t \notin CANCELLED /\ wpc[w] = "finally")
                        => RESULTS[t] = ErrTimeout
        /\ (handled[t] = "timeout" /\ t \notin CANCELLED)
               => /\ TASKS[t] = "failed"
                  /\ RESULTS[t] = ErrTimeout
                  /\ ~is_alive(t)

C5_Witness ==
    \E t \in TaskIds :
        handled[t] = "timeout" /\ t \notin CANCELLED /\ TASKS[t] = "failed"

\* C6: for a task that is never cancelled and whose directory is not
\* cleaned up, if the child ended before the deadline having written a
\* record with status "done", the worker records "done" and RESULTS equal
\* to exactly the "result" payload of that record.  (Nobody but the child
\* writes result.json of such a task, so the file still holds its record.)
C6_DoneRecordsThePayload ==
    \A t \in TaskIds, p \in Payloads :
        (/\ t \notin CANCELLED
         /\ dir[t]
         /\ handled[t] \notin {"none", "timeout"}
         /\ file[t] = JsonDumps(DoneRecord(p)))
            => (TASKS[t] = "done" /\ RESULTS[t] = p)

C6_Witness ==
    \E t \in TaskIds, p \in Payloads :
        /\ t \notin CANCELLED
        /\ dir[t]
        /\ handled[t] = "done"
        /\ file[t] = JsonDumps(DoneRecord(p))
        /\ RESULTS[t] = p

\* C7: with two workers every enqueued descriptor is dequeued at most once
\* and by one worker (none duplicated, none lost), no two workers handle
\* the same task at a time, and a task that was handled is handled by no
\* worker again (so one worker at most writes its terminal status).
C7_DequeuedOnceByOneWorker ==
    /\ NoDuplicates(dequeued)
    /\ SeqToSet(dequeued) \cap SeqToSet(TASK_QUEUE) = {}
    /\ SeqToSet(dequeued) \cup SeqToSet(TASK_QUEUE) = SeqToSet(enqueued)
    /\ Len(dequeued) + Len(TASK_QUEUE) = Len(enqueued)
    /\ \A w \in Workers :
         wpc[w] # "get" =>
           /\ wtask[w] \in SeqToSet(dequeued)
           /\ handled[wtask[w]] = "none"
           /\ \A v \in Workers \ {w} : ~Holds(v, wtask[w])
    /\ \A t \in TaskIds :
         handled[t] # "none" =>
           (t \in SeqToSet(dequeued) /\ \A w \in Workers : ~Holds(w, t))

C7_Witness ==
    /\ \A w \in Workers : wpc[w] \in {"status", "result"}
    /\ Len(dequeued) = 2

\* C8: descriptors leave TASK_QUEUE in the order in which their put
\* completed: the sequence of dequeued tasks is a prefix of the sequence of
\* enqueued tasks.
C8_DequeuedInFifoOrder ==
    /\ Len(dequeued) <= Len(enqueued)
    /\ \A i \in DOMAIN dequeued : dequeued[i] = enqueued[i]

C8_Witness ==
    /\ Len(enqueued) >= 2
    /\ Len(dequeued) >= 2
    /\ dequeued[1] = enqueued[1]
    /\ dequeued[2] = enqueued[2]

\* A task that is in the queue and not in CANCELLED has been touched by no
\* worker (none has dequeued it) and by no cancel call.
Untouched(t) == t \in SeqToSet(TASK_QUEUE) /\ t \notin CANCELLED

\* C9: submit records "queued" before the descriptor is visible to a worker;
\* from the moment submit has returned a query never reports an unknown
\* task; it reports "queued" with a null result as long as no worker and no
\* cancel call has touched the task; and the write of "queued" overwrites
\* no status written earlier.
C9_QueuedRecordedBeforeVisible ==
    [][ /\ (upc = "queued" /\ upc' = "put") => TASKS[utask] = NoStatus
        /\ (upc = "put" /\ upc' = "idle") => TASKS[utask] # NoStatus
        /\ \A q \in QueryThreads, t \in TaskIds :
             (qpc[q] = "idle" /\ qpc'[q] = "res" /\ qtask'[q] = t
                  /\ t \in SeqToSet(enqueued))
               => qstatus'[q] # NoStatus
        /\ \A q \in QueryThreads :
             (qpc[q] = "res" /\ qpc'[q] = "idle" /\ qstatus[q] # NoStatus
                  /\ Untouched(qtask[q]))
               => QueryResponse(q) =
                    [task_id |-> qtask[q], status |-> "queued", result |-> None]
      ]_vars

C9_Witness ==
    \E q \in QueryThreads :
        /\ qpc[q] = "res"
        /\ qstatus[q] = "queued"
        /\ Untouched(qtask[q])
        /\ RESULTS[qtask[q]] = None

\* C10: a query never observes a torn write: it never returns "done" or
\* "failed" together with a null result, nor "done" with a result that is
\* not a solve payload.
C10_QueryNeverTorn ==
    \A q \in QueryThreads :
        qpc[q] = "res" =>
            /\ qstatus[q] \in {"done", "failed"} => RESULTS[qtask[q]] # None
            /\ qstatus[q] = "done" => RESULTS[qtask[q]] \in Payloads

\* C11: RESULTS[task_id] is assigned at most once over the lifetime of a
\* task (a recorded result is never replaced), and only in a step that
\* leaves TASKS[task_id] terminal.
C11_ResultAssignedOnce ==
    [][ \A t \in TaskIds :
          /\ RESULTS[t] # None => RESULTS'[t] = RESULTS[t]
          /\ RESULTS'[t] # RESULTS[t] => TASKS'[t] \in Terminal ]_vars

\* C12: no task outcome makes a worker leave its run loop: whatever a
\* worker that has dequeued a task meets (child success, failed record,
\* missing result file, timeout, exception while spawning, a cancel before
\* the start or during processing), it comes back to TASK_QUEUE.get().
C12_WorkerReturnsToGet ==
    \A w \in Workers : (wpc[w] # "get") ~> (wpc[w] = "get")

\* Two tasks have been handled, one through the except clause and one
\* through the timeout branch, and every worker is back at the dequeue step.
C12_Witness ==
    /\ \A w \in Workers : wpc[w] = "get"
    /\ \E t \in TaskIds : handled[t] = "exception"
    /\ \E t \in TaskIds : handled[t] \in {"timeout", "no_result", "failed_record"}

\* C14: with the workers scheduled fairly (and a terminated child dying),
\* every task whose descriptor was put on the queue eventually has a
\* terminal status, even when the children of earlier tasks hang forever:
\* the join returns at the deadline and the worker goes on to the next task.
C14_SubmittedEventuallyTerminal ==
    \A t \in TaskIds :
        (t \in SeqToSet(enqueued)) ~> (TASKS[t] \in Terminal)

\* The child of the first task hung until the worker killed it at the
\* deadline, and the task submitted after it has been handled all the same.
C14_Witness ==
    /\ Len(enqueued) = 2
    /\ child[enqueued[1]] = "killed by worker"
    /\ handled[enqueued[1]] = "timeout"
    /\ handled[enqueued[2]] # "none"
    /\ TASKS[enqueued[2]] \in Terminal

\* The tasks whose child process is alive.
AliveChildren == { t \in TaskIds : is_alive(t) }

\* C16: in every reachable state at most WORKER_COUNT child processes are
\* alive, whatever was queued or cancelled: a child is alive only while the
\* worker that started it waits in p.join or is about to terminate it, and a
\* worker holds one task at a time.
C16_AliveChildrenAtMostWorkers ==
    /\ Cardinality(AliveChildren) <= WORKER_COUNT
    /\ \A t \in AliveChildren :
         \E w \in Workers : wtask[w] = t /\ wpc[w] \in {"join", "terminate"}
    /\ \A w, v \in Workers : (w # v /\ wtask[w] # 0) => wtask[w] # wtask[v]

\* Every worker has a live child while a cancel request has been made.
C16_Witness ==
    /\ Cardinality(AliveChildren) = WORKER_COUNT
    /\ CANCELLED # {}

\* ------------------------------------------------- cancel_endpoint, whole
\* The part of the state cancel_endpoint reads and writes.
CancelView ==
    [TASKS |-> TASKS, RESULTS |-> RESULTS, CANCELLED |-> CANCELLED,
     alive |-> { t \in PROCESS_MAP : is_alive(t) }]

\* Mutant of cancel_run: a second cancel of a cancelled task takes the id
\* out of CANCELLED again.
cancel_run_Toggle(s, t) ==
    IF s.TASKS[t] = NoStatus
    THEN [view |-> s, resp |-> [error |-> "unknown task_id"]]
    ELSE [view |->
            [TASKS |-> [s.TASKS EXCEPT ![t] = "cancelled"],
             RESULTS |-> IF t \in s.alive
                         THEN [s.RESULTS EXCEPT ![t] = ErrCancelledByUser]
                         ELSE s.RESULTS,
             CANCELLED |-> IF t \in s.CANCELLED
                           THEN s.CANCELLED \ {t}
                           ELSE s.CANCELLED \cup {t},
             alive |-> s.alive \ {t}],
          resp |-> [task_id |-> t, status |-> "cancelled"]]

\* One call of cancel_endpoint(task_id) run from entry to return with no
\* step of another thread in between, as a function of the view: the view
\* it leaves and its response.  A terminated child is no longer alive.
cancel_run(s, t) ==
    IF s.TASKS[t] = NoStatus
    THEN [view |-> s, resp |-> [error |-> "unknown task_id"]]
    ELSE [view |->
            [TASKS |-> [s.TASKS EXCEPT ![t] = "cancelled"],
             RESULTS |-> IF t \in s.alive
                         THEN [s.RESULTS EXCEPT ![t] = ErrCancelledByUser]
                         ELSE s.RESULTS,
             CANCELLED |-> s.CANCELLED \cup {t},
             alive |-> s.alive \ {t}],
          resp |-> [task_id |-> t, status |-> "cancelled"]]

\* C17: two cancel calls in a row on the same known task_id, with no other
\* step in between, give the same response, and the second leaves TASKS,
\* RESULTS and CANCELLED as the first left them.
C17_CancelTwiceIsCancelOnce ==
    \A t \in TaskIds :
        TASKS[t] # NoStatus =>
            LET first == cancel_run(CancelView, t)
                second == cancel_run(first.view, t)
            IN /\ second.resp = first.resp
               /\ second.view.TASKS = first.view.TASKS
               /\ second.view.RESULTS = first.view.RESULTS
               /\ second.view.CANCELLED = first.view.CANCELLED

\* A task is being processed by a live child and is not cancelled yet: the
\* first call terminates the child and records the cancellation.
C17_Witness ==
    \E t \in TaskIds :
        /\ TASKS[t] = "processing"
        /\ t \in PROCESS_MAP
        /\ is_alive(t)
        /\ t \notin CANCELLED
        /\ cancel_run(CancelView, t).view.RESULTS[t] = ErrCancelledByUser

\* A successful submit has recorded task t: upload_endpoint has executed
\* TASKS[task_id] = "queued" for it.
Recorded(t) == t \in SeqToSet(enqueued) \/ (upc = "put" /\ utask = t)

\* C18: query is a pure read: no step of result_endpoint changes TASKS,
\* RESULTS, CANCELLED, PROCESS_MAP or TASK_QUEUE; and it answers "unknown
\* task_id" exactly when no successful submit had recorded the task when it
\* read the status.
C18_QueryIsPureRead ==
    [][ \A q \in QueryThreads :
          /\ qpc'[q] # qpc[q] => UNCHANGED storeVars
          /\ \A t \in TaskIds :
               (qpc[q] = "idle" /\ qpc'[q] = "res" /\ qtask'[q] = t)
                 => (qstatus'[q] = NoStatus <=> ~Recorded(t))
          /\ (qpc[q] = "res" /\ qpc'[q] = "idle")
                 => (QueryResponse(q) = [error |-> "unknown task_id"]
                        <=> qstatus[q] = NoStatus) ]_vars

\* A query is answering for a recorded task whose status is terminal, and
\* another task was never submitted.
C18_Witness ==
    \E q \in QueryThreads :
        /\ qpc[q] = "res"
        /\ qstatus[q] \in Terminal
        /\ Recorded(qtask[q])
        /\ \E t \in TaskIds : ~Recorded(t)

\* C19: cancel(task_id) for an id that is not in TASKS answers "unknown
\* task_id" and changes none of CANCELLED, TASKS, RESULTS and PROCESS_MAP:
\* the unknown id does not enter the cancellation set.
C19_CancelUnknownChangesNothing ==
    [][ \A c \in CancelThreads, t \in TaskIds :
          (CancelCall(c, t) /\ TASKS[t] = NoStatus)
            => /\ cresp'[c] = "unknown task_id"
               /\ cpc'[c] = "idle"
               /\ t \notin CANCELLED'
               /\ UNCHANGED << CANCELLED, TASKS, RESULTS, PROCESS_MAP >> ]_vars

\* A cancel call has been answered "unknown task_id" while another task is
\* known and being processed.
C19_Witness ==
    \E c \in CancelThreads, t \in TaskIds :
        /\ cpc[c] = "idle"
        /\ cresp[c] = "unknown task_id"
        /\ TASKS[t] = NoStatus
        /\ t \notin CANCELLED
        /\ \E u \in TaskIds : TASKS[u] = "processing"

\* C20: cleanup_older never removes the scratch directory of a task whose
\* status is still "queued" or "processing": a directory goes away only
\* once its task is terminal.
C20_CleanupSparesLiveTasks ==
    [][ \A t \in TaskIds :
          (dir[t] /\ ~dir'[t]) => TASKS[t] \notin {"queued", "processing"} ]_vars

\* C13: in server_simple.py no task outcome makes a worker leave its run
\* loop: no exception escapes worker_loop, so no worker thread ever ends.
C13_SimpleWorkerStaysInLoop ==
    \A w \in Workers : swpc[w] # "dead"

\* C15: in server_simple.py a solve call that hangs cannot keep the workers
\* away from the queue: a descriptor that is in the queue is eventually
\* dequeued (as long as no worker thread has ended), also when the calls of
\* the tasks before it never return.
C15_HungCallsDoNotBlockQueue ==
    \A t \in SimpleTaskIds :
        (t \in SeqToSet(S_TASK_QUEUE))
            ~> (t \notin SeqToSet(S_TASK_QUEUE) \/ \E w \in Workers : swpc[w] = "dead")

\* ---------------------------------------------------- result_endpoint, whole
\* The response of result_endpoint(task_id) run from entry to return with
\* no step of another thread in between.
query_run(t) ==
    IF TASKS[t] = NoStatus
    THEN [error |-> "unknown task_id"]
    ELSE [task_id |-> t, status |-> TASKS[t], result |-> RESULTS[t]]

\* C21: cleanup_older changes only scratch storage: a step of it leaves
\* TASKS, RESULTS, CANCELLED and TASK_QUEUE unchanged, so for a task that
\* reached "done" the query after the cleanup answers as the query before.
C21_CleanupChangesOnlyScratch ==
    [][ \A t \in TaskIds :
          cleanup_older(t) =>
            /\ UNCHANGED << TASKS, RESULTS, CANCELLED, TASK_QUEUE >>
            /\ \A u \in TaskIds :
                 TASKS[u] = "done" => query_run(u)' = query_run(u) ]_vars

\* The directory of a task that is "done" with its payload has been removed.
C21_Witness ==
    \E t \in TaskIds :
        /\ TASKS[t] = "done"
        /\ RESULTS[t] \in Payloads
        /\ handled[t] = "done"
        /\ ~dir[t]
        /\ query_run(t) = [task_id |-> t, status |-> "done", result |-> RESULTS[t]]

\* C22: when saving the uploaded images fails, no entry is added to TASKS,
\* no descriptor is enqueued and no task id is allocated for the failed
\* submission: in server_simple.py the failing step leaves TASKS and the
\* queue alone, and whenever no upload is in progress every id the counter
\* has handed out belongs to a recorded task.
C22_FailedSaveAllocatesNothing ==
    /\ supc = "idle" =>
         \A t \in SimpleTaskIds : t <= S_counter => S_TASKS[t] # NoStatus
    /\ \A t \in SimpleTaskIds :
         t \in SeqToSet(S_TASK_QUEUE) => S_TASKS[t] # NoStatus

\* C23: a worker that has dequeued a descriptor whose task_id is in
\* CANCELLED records "cancelled" and goes back to the dequeue step: it
\* does not record "processing", makes no PROCESS_MAP entry and starts no
\* child; a task handled that way has never had a child.
C23_CancelledDescriptorIsSkipped ==
    [][ /\ \A w \in Workers :
             (wpc[w] = "check" /\ wtask[w] \in CANCELLED /\ wpc'[w] # "check")
               => /\ wpc'[w] = "get"
                  /\ TASKS'[wtask[w]] = "cancelled"
                  /\ handled'[wtask[w]] = "skipped"
                  /\ UNCHANGED << PROCESS_MAP, child, RESULTS >>
        /\ \A t \in TaskIds :
             handled'[t] = "skipped"
               => /\ child'[t] = "none"
                  /\ t \notin PROCESS_MAP'
                  /\ TASKS'[t] # "processing" ]_vars

\* A task cancelled while queued has been skipped by a worker.
C23_Witness ==
    \E t \in TaskIds :
        /\ handled[t] = "skipped"
        /\ TASKS[t] = "cancelled"
        /\ child[t] = "none"
        /\ \A w \in Workers : wtask[w] # t

\* C24: only the worker that dequeued a task writes its result: no step of
\* cancel_endpoint writes RESULTS, and none writes the status "done".
C24_CancelWritesNoResult ==
    [][ \A c \in CancelThreads :
          cpc'[c] # cpc[c] =>
            /\ RESULTS' = RESULTS
            /\ \A t \in TaskIds : TASKS'[t] = "done" => TASKS[t] = "done" ]_vars

\* C25: for a task that is never cancelled, when the child has ended before
\* the deadline and left no readable record (no result.json, or a text that
\* is not JSON), the worker records "failed" with the error value
\* "no_result".
C25_NoResultIsRecorded ==
    \A t \in TaskIds :
        (t \notin CANCELLED /\ handled[t] = "no_result")
            => (TASKS[t] = "failed" /\ RESULTS[t] = [error |-> "no_result"])

\* C26: for a task that is never cancelled, when the external call raised
\* inside the child (the child left its failed record), the worker does not
\* raise: it records "failed" with a result that carries an "error" field;
\* and the worker's writes of a status and a result change the entries of
\* no other task.
C26_ChildFailureIsContained ==
    [][ /\ \A t \in TaskIds :
             (t \notin CANCELLED' /\ handled'[t] = "failed_record")
               => /\ TASKS'[t] = "failed"
                  /\ "error" \in DOMAIN RESULTS'[t]
                  /\ RESULTS'[t] = ChildFailedRecord
        /\ \A w \in Workers :
             (wpc[w] \in {"status", "result"} /\ wpc'[w] # wpc[w])
               => \A u \in TaskIds \ {wtask[w]} :
                     TASKS'[u] = TASKS[u] /\ RESULTS'[u] = RESULTS[u] ]_vars

\* The failed record of a child has been recorded for one task while the
\* other task is known to the server.
C26_Witness ==
    \E t \in TaskIds :
        /\ t \notin CANCELLED
        /\ handled[t] = "failed_record"
        /\ TASKS[t] = "failed"
        /\ RESULTS[t] = ChildFailedRecord
        /\ \E u \in TaskIds \ {t} : TASKS[u] # NoStatus

\* C27: next_task_id returns a distinct id on every call, also when several
\* callers are inside it at once: no id is returned twice, and the counter
\* only increases.
C27_IdsAreDistinct ==
    [][ /\ S_counter' >= S_counter
        /\ NoDuplicates(issued')
        /\ \A k \in DOMAIN issued' : issued'[k] = k ]_vars

\* An id has been returned and a later call holds the lock while another
\* caller is waiting for it.
C27_Witness ==
    /\ Len(issued) >= 1
    /\ \E i, j \in IdCallers :
          counter_lock = i /\ ipc[i] = "store" /\ ipc[j] = "acquire"

\* The workers of server_simple.py that hold a descriptor, and those that
\* hold one and have certainly not called task_done for it yet.
SimpleHolding == { w \in Workers : swpc[w] \notin {"get", "dead"} }

SimpleBeforeDone ==
    { w \in Workers :
        swpc[w] \in {"check", "skip_done", "processing", "client", "sim_result",
                     "sim_status", "sim_done", "call", "hung", "api_status",
                     "api_result", "api_done", "result", "status"} }

\* C28: in server_simple.py task_done is called exactly once for every
\* dequeued descriptor: the unfinished-task count is the number of
\* descriptors that are in the queue or held by a worker that has not
\* finished them, and no call of task_done finds the count at zero.
C28_TaskDoneOncePerDescriptor ==
    /\ unfinished_tasks >= Len(S_TASK_QUEUE) + Cardinality(SimpleBeforeDone)
    /\ unfinished_tasks <= Len(S_TASK_QUEUE) + Cardinality(SimpleHolding)
    /\ \A w \in Workers :
         swpc[w] \in {"skip_done", "sim_done", "api_done", "finally"}
            => ~task_done_raises

\* C29: PROCESS_MAP holds an entry for a task only while the worker that
\* dequeued it is between creating the child and finishing the task: a task
\* that a worker has finished has no entry, and PROCESS_MAP never holds
\* more than WORKER_COUNT entries.
C29_ProcessMapFollowsWorkers ==
    /\ \A t \in PROCESS_MAP :
         \E w \in Workers :
            /\ wtask[w] = t
            /\ wpc[w] \in {"join", "terminate", "status", "result", "finally"}
    /\ \A t \in TaskIds : handled[t] # "none" => t \notin PROCESS_MAP
    /\ \A w \in Workers : wpc[w] \in {"get", "check", "processing", "start"}
                              => wtask[w] \notin PROCESS_MAP
    /\ Cardinality(PROCESS_MAP) <= WORKER_COUNT

\* One task has been through a child and is finished, with no entry left,
\* while the other task has its entry.
C29_Witness ==
    \E t, u \in TaskIds :
        /\ handled[t] \in {"done", "failed_record", "no_result", "timeout"}
        /\ t \notin PROCESS_MAP
        /\ u \in PROCESS_MAP
        /\ \A w \in Workers : wtask[w] # t

\* The task ids the server refers to anywhere outside TASKS.
Referenced ==
    UNION { SeqToSet(TASK_QUEUE),
            { t \in TaskIds : \E w \in Workers : Holds(w, t) },
            CANCELLED,
            PROCESS_MAP,
            { t \in TaskIds : RESULTS[t] # None } }

\* C30: every task id that is in TASK_QUEUE, held by a worker, in
\* CANCELLED, in PROCESS_MAP or a key of RESULTS is a key of TASKS, and no
\* step (of a worker, of cancel or of cleanup) removes a key from TASKS.
C30_ReferencedIdsAreInTasks ==
    [][ /\ \A t \in Referenced' : TASKS'[t] # NoStatus
        /\ \A t \in TaskIds : TASKS[t] # NoStatus => TASKS'[t] # NoStatus ]_vars

\* One task is cancelled and has a result, its directory has been cleaned
\* up, and the other task has a PROCESS_MAP entry.
C30_Witness ==
    \E t, u \in TaskIds :
        /\ t \in CANCELLED
        /\ RESULTS[t] # None
        /\ ~dir[t]
        /\ u \in PROCESS_MAP
        /\ u # t
        /\ Referenced = {t, u}

\* C31: in every state in which no worker is handling the task, status and
\* result are consistent: a task whose status is "cancelled" has no
\* successful solve result in RESULTS (its result is absent or an error
\* record), and a task whose result is {"error": "timeout"} has status
\* "failed".
C31_StatusAndResultConsistent ==
    \A t \in TaskIds :
        (\A w \in Workers : ~Holds(w, t))
            => /\ TASKS[t] = "cancelled" => RESULTS[t] \notin Payloads
               /\ RESULTS[t] = ErrTimeout => TASKS[t] = "failed"

\* The qnum form field parses as an integer.
ParsesAsInt(q) == q # None /\ int(q.str) # ValueError

\* C32: whenever the qnum form field parses as an integer (0 included), that
\* integer is the question_number solve reports, whatever number the first
\* filename contains; the number of the filename is reported only when qnum
\* is absent or is not an integer.
C32_QnumFieldTakesPrecedence ==
    solve_pc = "answered"
        => /\ ParsesAsInt(qnum) => response.question_number = int(qnum.str)
           /\ ~ParsesAsInt(qnum)
                => response.question_number
                     \in {None, extract_question_number_from_filename(files[1])}

============================================================================
